---- MODULE Spec2Model ----
(***************************************************************************)
(* AristonVelisDevice (src/ariston/velis_device.py): the settings cache    *)
(* plant_settings, the read accessors over it, and the four setters that   *)
(* forward a write to the remote API and then store it in the cache.       *)
(*                                                                         *)
(* Python values are modelled as tagged records [ty, v] so that a bool, a  *)
(* float and None are distinct values that can be compared: True is        *)
(* [ty |-> "bool", v |-> 1], 1.0 is [ty |-> "float", v |-> 1].             *)
(***************************************************************************)
EXTENDS Integers, Sequences, FiniteSets, TLC

VARIABLES
    plant_settings,   \* self.plant_settings: dict from setting key to value
    data,             \* self.data: live readings mirror (owned by the base class)
    umsys,            \* self.umsys
    unit,             \* self.unit
    language_tag,     \* self.language_tag
    ctor,             \* the constructor's arguments (is_metric, language_tag)
    pc,               \* per task: "idle" or "awaiting" (suspended at the await)
    cur,              \* per task: the setter invocation in progress
    remote_applied,   \* per setting key: new_value of the call the remote applied last
    started,          \* number of setter invocations started so far
    refreshed,        \* number of external refreshes so far
    expected,         \* per setting key: the value populated or successfully set last
    last,             \* the setter invocation that finished last
    reads             \* what the caller's read of the accessors returned

vars == <<plant_settings, data, umsys, unit, language_tag, ctor, pc, cur,
          remote_applied, started, refreshed, expected, last, reads>>

\* ------------------------------------------------------------------ bounds
MaxCalls == 2
MaxRefresh == 1

\* the logical tasks that call the device's setters
Tasks == {1, 2}

\* ------------------------------------------------------------ Python values
None == [ty |-> "NoneType", v |-> 0]
PyBool(b) == [ty |-> "bool", v |-> IF b THEN 1 ELSE 0]
PyFloat(n) == [ty |-> "float", v |-> n]
\* Python truth value of an object (None, bool, float)
Truthy(x) == x.v # 0

Bools == {PyBool(TRUE), PyBool(FALSE)}
Temps == {PyFloat(60), PyFloat(65)}
LanguageTags == {"en-US", "it-IT"}

\* exceptions / outcomes seen by the caller
OK == "ok"
KeyError == "KeyError"
RemoteErrors == {"ConnectionError", "TimeoutError"}
RemoteOutcomes == {OK} \cup RemoteErrors
NoOutcome == "none"
Pending == "pending"

\* dict helpers
EmptyDict == [k \in {} |-> None]
DictGet(d, k, default) == IF k \in DOMAIN d THEN d[k] ELSE default
DictSet(d, k, x) == [j \in DOMAIN d \cup {k} |-> IF j = k THEN x ELSE d[j]]

\* ------------------------------------------------- abstract key properties
anti_legionella_on_off == "AntiLeg"
max_setpoint_temp == "MaxSetpoint"
PROC_REQ_TEMP == "ProcReqTemp"
SettingKeys == {anti_legionella_on_off, max_setpoint_temp}

\* ------------------------------------------------------------ construction
\* __init__: the fields the constructor sets (plant_settings empty, the unit
\* system and its label from is_metric, the language tag as given)
\* mutant: the label is not derived from is_metric
AristonVelisDevice_init_celsius_label(is_metric, tag) ==
    [plant_settings |-> EmptyDict,
     umsys |-> IF is_metric THEN "si" ELSE "us",
     unit |-> "°C",
     language_tag |-> tag]

AristonVelisDevice_init(is_metric, tag) ==
    [plant_settings |-> EmptyDict,
     umsys |-> IF is_metric THEN "si" ELSE "us",
     unit |-> IF is_metric THEN "°C" ELSE "°F",
     language_tag |-> tag]

\* ------------------------------------------------------------- remote API
\* the arguments of api.set_velis_plant_setting that this class computes
\* (plant_data and gw belong to the base class and never change)
Call(setting, new_value, old_value, us) ==
    [setting |-> setting, new_value |-> new_value, old_value |-> old_value,
     umsys |-> us]

\* AristonAPI.set_velis_plant_setting / async_set_velis_plant_setting: on
\* success the remote holds new_value for the setting, on failure nothing
set_velis_plant_setting(applied, call, out) ==
    IF out = OK THEN [applied EXCEPT ![call.setting] = call.new_value] ELSE applied

\* ------------------------------------------------------------ bookkeeping
NoOvertaker ==
    [id |-> 0, setter |-> "none", arg |-> None, old_value |-> None,
     new_value |-> None, result |-> NoOutcome]

\* the record of one setter invocation
NoInv ==
    [id |-> 0, setter |-> "none", key |-> "none", arg |-> None,
     pre |-> EmptyDict, calls |-> <<>>, out |-> NoOutcome, result |-> NoOutcome,
     post |-> EmptyDict, overtaken_by |-> NoOvertaker]

NewInv(name, key, arg) ==
    [NoInv EXCEPT !.id = started + 1, !.setter = name, !.key = key,
                  !.arg = arg, !.pre = plant_settings]

\* what is kept of an invocation that started after inv and finished before it
Overtaker(inv) ==
    IF last.id > inv.id /\ last.calls # <<>>
    THEN [id |-> last.id, setter |-> last.setter, arg |-> last.arg,
          old_value |-> last.calls[1].old_value,
          new_value |-> last.calls[1].new_value, result |-> last.result]
    ELSE NoOvertaker

\* the value a successful call on inv.key leaves to be sent as the next old value
Expect(inv) ==
    IF inv.result = OK
    THEN [k \in DOMAIN expected \cup {inv.key} |->
             IF k = inv.key THEN inv.arg ELSE expected[k]]
    ELSE expected

\* the invocation of task t ends: the cache is ps_after, the caller sees inv.result
Finish(t, inv, ps_after) ==
    /\ plant_settings' = ps_after
    /\ last' = [inv EXCEPT !.post = ps_after, !.overtaken_by = Overtaker(inv)]
    /\ expected' = Expect(inv)
    /\ pc' = [pc EXCEPT ![t] = "idle"]
    /\ cur' = [cur EXCEPT ![t] = NoInv]

\* normal return of the setter
Return(t, inv, ps_after) == Finish(t, [inv EXCEPT !.result = OK], ps_after)

\* the exception exc leaves the setter; nothing after the raising line runs
Raise(t, inv, exc) == Finish(t, [inv EXCEPT !.result = exc], plant_settings)

\* the coroutine of task t suspends at its await with the call in flight
Suspend(t, inv) ==
    /\ pc' = [pc EXCEPT ![t] = "awaiting"]
    /\ cur' = [cur EXCEPT ![t] = inv]
    /\ UNCHANGED <<plant_settings, last, expected>>

\* ---------------------------------------------------------- read accessors
water_anti_leg_value == DictGet(plant_settings, anti_legionella_on_off, None)

proc_req_temp_value == DictGet(data, PROC_REQ_TEMP, None)

\* mutant: a subscript instead of .get, which raises when the key is absent
water_heater_maximum_setpoint_temperature_subscript ==
    IF max_setpoint_temp \in DOMAIN plant_settings
    THEN plant_settings[max_setpoint_temp]
    ELSE [ty |-> KeyError, v |-> 0]

water_heater_maximum_setpoint_temperature ==
    DictGet(plant_settings, max_setpoint_temp, None)

water_heater_minimum_temperature == PyFloat(40)

water_heater_maximum_temperature == water_heater_maximum_setpoint_temperature

water_heater_temperature_step == 1

water_heater_temperature_decimals == 0

water_heater_temperature_unit == unit

NoRead ==
    [read |-> FALSE, water_anti_leg_value |-> None, proc_req_temp_value |-> None,
     water_heater_maximum_setpoint_temperature |-> None,
     water_heater_minimum_temperature |-> None,
     water_heater_maximum_temperature |-> None]

\* a caller reads the derived properties of the device
ReadAccessors ==
    /\ reads' =
         [read |-> TRUE,
          water_anti_leg_value |-> water_anti_leg_value,
          proc_req_temp_value |-> proc_req_temp_value,
          water_heater_maximum_setpoint_temperature |->
              water_heater_maximum_setpoint_temperature,
          water_heater_minimum_temperature |-> water_heater_minimum_temperature,
          water_heater_maximum_temperature |-> water_heater_maximum_temperature]
    /\ UNCHANGED <<plant_settings, data, umsys, unit, language_tag, ctor, pc, cur,
                   remote_applied, started, refreshed, expected, last>>

\* ----------------------------------------------------------------- setters
\* what a setter never touches; the values read earlier are forgotten
Frame ==
    /\ reads' = NoRead
    /\ UNCHANGED <<data, umsys, unit, language_tag, ctor, refreshed>>

\* mutant: the old value is read with a default instead of a subscript
set_antilegionella_run_default_old(ps, us, anti_leg, out) ==
    LET call == Call(anti_legionella_on_off,
                     IF Truthy(anti_leg) THEN PyFloat(1) ELSE PyFloat(0),
                     IF Truthy(DictGet(ps, anti_legionella_on_off, PyBool(FALSE)))
                         THEN PyFloat(1) ELSE PyFloat(0),
                     us)
    IN [calls |-> <<call>>, out |-> out, result |-> out,
        post |-> IF out = OK
                 THEN DictSet(ps, anti_legionella_on_off, anti_leg)
                 ELSE ps]

\* mutant: the cache is written whether or not the remote call succeeded
set_antilegionella_run_store_always(ps, us, anti_leg, out) ==
    IF anti_legionella_on_off \notin DOMAIN ps
    THEN [calls |-> <<>>, out |-> NoOutcome, result |-> KeyError, post |-> ps]
    ELSE LET call == Call(anti_legionella_on_off,
                          IF Truthy(anti_leg) THEN PyFloat(1) ELSE PyFloat(0),
                          IF Truthy(ps[anti_legionella_on_off])
                              THEN PyFloat(1) ELSE PyFloat(0),
                          us)
         IN [calls |-> <<call>>, out |-> out, result |-> out,
             post |-> DictSet(ps, anti_legionella_on_off, anti_leg)]

\* one run of set_antilegionella from cache ps when the remote call ends in out
set_antilegionella_run(ps, us, anti_leg, out) ==
    IF anti_legionella_on_off \notin DOMAIN ps
    THEN \* line 59: the subscript raises while the arguments are evaluated
         [calls |-> <<>>, out |-> NoOutcome, result |-> KeyError, post |-> ps]
    ELSE LET call == Call(anti_legionella_on_off,
                          IF Truthy(anti_leg) THEN PyFloat(1) ELSE PyFloat(0),
                          IF Truthy(ps[anti_legionella_on_off])
                              THEN PyFloat(1) ELSE PyFloat(0),
                          us)
         IN [calls |-> <<call>>, out |-> out, result |-> out,
             post |-> IF out = OK
                      THEN DictSet(ps, anti_legionella_on_off, anti_leg)
                      ELSE ps]

\* mutant: the new value is passed in the place of the old value
set_max_setpoint_temp_run_old_is_new(ps, us, temp, out) ==
    IF max_setpoint_temp \notin DOMAIN ps
    THEN [calls |-> <<>>, out |-> NoOutcome, result |-> KeyError, post |-> ps]
    ELSE LET call == Call(max_setpoint_temp, temp, temp, us)
         IN [calls |-> <<call>>, out |-> out, result |-> out,
             post |-> IF out = OK THEN DictSet(ps, max_setpoint_temp, temp) ELSE ps]

\* mutant: a failed remote call is issued a second time
set_max_setpoint_temp_run_retry(ps, us, temp, out) ==
    IF max_setpoint_temp \notin DOMAIN ps
    THEN [calls |-> <<>>, out |-> NoOutcome, result |-> KeyError, post |-> ps]
    ELSE LET call == Call(max_setpoint_temp, temp, ps[max_setpoint_temp], us)
         IN [calls |-> IF out = OK THEN <<call>> ELSE <<call, call>>,
             out |-> out, result |-> out,
             post |-> IF out = OK THEN DictSet(ps, max_setpoint_temp, temp) ELSE ps]

\* one run of set_max_setpoint_temp from cache ps when the remote call ends in out
set_max_setpoint_temp_run(ps, us, temp, out) ==
    IF max_setpoint_temp \notin DOMAIN ps
    THEN \* line 83: the subscript raises while the arguments are evaluated
         [calls |-> <<>>, out |-> NoOutcome, result |-> KeyError, post |-> ps]
    ELSE LET call == Call(max_setpoint_temp, temp, ps[max_setpoint_temp], us)
         IN [calls |-> <<call>>, out |-> out, result |-> out,
             post |-> IF out = OK THEN DictSet(ps, max_setpoint_temp, temp) ELSE ps]

\* a synchronous setter runs to its end in one step of the calling task
SyncSetter(t, inv, run) ==
    /\ pc[t] = "idle"
    /\ started < MaxCalls
    /\ started' = started + 1
    /\ Frame
    /\ remote_applied' =
          IF run.calls = <<>> THEN remote_applied
          ELSE set_velis_plant_setting(remote_applied, run.calls[1], run.out)
    /\ Finish(t, [inv EXCEPT !.calls = run.calls, !.out = run.out,
                             !.result = run.result], run.post)

set_antilegionella(t, anti_leg) ==
    \E out \in RemoteOutcomes :
      SyncSetter(t, NewInv("set_antilegionella", anti_legionella_on_off, anti_leg),
                 set_antilegionella_run(plant_settings, umsys, anti_leg, out))

set_max_setpoint_temp(t, temp) ==
    \E out \in RemoteOutcomes :
      SyncSetter(t, NewInv("set_max_setpoint_temp", max_setpoint_temp, temp),
                 set_max_setpoint_temp_run(plant_settings, umsys, temp, out))

\* mutant: the cache is written before the remote call is awaited
async_set_antilegionella_store_first(t, anti_leg) ==
    /\ pc[t] = "idle"
    /\ started < MaxCalls
    /\ started' = started + 1
    /\ Frame
    /\ UNCHANGED remote_applied
    /\ LET inv == NewInv("async_set_antilegionella", anti_legionella_on_off,
                         anti_leg) IN
       IF anti_legionella_on_off \notin DOMAIN plant_settings
       THEN Raise(t, inv, KeyError)
       ELSE LET call == Call(anti_legionella_on_off,
                             IF Truthy(anti_leg) THEN PyFloat(1) ELSE PyFloat(0),
                             IF Truthy(plant_settings[anti_legionella_on_off])
                                 THEN PyFloat(1) ELSE PyFloat(0),
                             umsys)
            IN /\ pc' = [pc EXCEPT ![t] = "awaiting"]
               /\ cur' = [cur EXCEPT ![t] =
                             [inv EXCEPT !.calls = <<call>>, !.out = Pending]]
               /\ plant_settings' =
                      DictSet(plant_settings, anti_legionella_on_off, anti_leg)
               /\ UNCHANGED <<last, expected>>

\* async_set_antilegionella up to its await: the arguments are evaluated, the
\* remote call is issued and the coroutine suspends
async_set_antilegionella(t, anti_leg) ==
    /\ pc[t] = "idle"
    /\ started < MaxCalls
    /\ started' = started + 1
    /\ Frame
    /\ UNCHANGED remote_applied
    /\ LET inv == NewInv("async_set_antilegionella", anti_legionella_on_off,
                         anti_leg) IN
       IF anti_legionella_on_off \notin DOMAIN plant_settings
       THEN \* line 71: the subscript raises before anything is awaited
            Raise(t, inv, KeyError)
       ELSE LET call == Call(anti_legionella_on_off,
                             IF Truthy(anti_leg) THEN PyFloat(1) ELSE PyFloat(0),
                             IF Truthy(plant_settings[anti_legionella_on_off])
                                 THEN PyFloat(1) ELSE PyFloat(0),
                             umsys)
            IN Suspend(t, [inv EXCEPT !.calls = <<call>>, !.out = Pending])

\* mutant: the number sent to the remote is stored instead of the flag
async_set_antilegionella_resume_store_number(t) ==
    /\ pc[t] = "awaiting"
    /\ cur[t].setter = "async_set_antilegionella"
    /\ cur[t].out # Pending
    /\ Frame
    /\ UNCHANGED <<remote_applied, started>>
    /\ IF cur[t].out = OK
       THEN Return(t, cur[t],
                   DictSet(plant_settings, anti_legionella_on_off,
                           cur[t].calls[1].new_value))
       ELSE Raise(t, cur[t], cur[t].out)

\* the await of async_set_antilegionella returns or raises (lines 66, 74)
async_set_antilegionella_resume(t) ==
    /\ pc[t] = "awaiting"
    /\ cur[t].setter = "async_set_antilegionella"
    /\ cur[t].out # Pending
    /\ Frame
    /\ UNCHANGED <<remote_applied, started>>
    /\ IF cur[t].out = OK
       THEN Return(t, cur[t],
                   DictSet(plant_settings, anti_legionella_on_off, cur[t].arg))
       ELSE Raise(t, cur[t], cur[t].out)

\* mutant: the cache is written before the remote call is awaited
async_set_max_setpoint_temp_store_first(t, temp) ==
    /\ pc[t] = "idle"
    /\ started < MaxCalls
    /\ started' = started + 1
    /\ Frame
    /\ UNCHANGED remote_applied
    /\ LET inv == NewInv("async_set_max_setpoint_temp", max_setpoint_temp, temp) IN
       IF max_setpoint_temp \notin DOMAIN plant_settings
       THEN Raise(t, inv, KeyError)
       ELSE LET call == Call(max_setpoint_temp, temp,
                             plant_settings[max_setpoint_temp], umsys)
            IN /\ pc' = [pc EXCEPT ![t] = "awaiting"]
               /\ cur' = [cur EXCEPT ![t] =
                             [inv EXCEPT !.calls = <<call>>, !.out = Pending]]
               /\ plant_settings' = DictSet(plant_settings, max_setpoint_temp, temp)
               /\ UNCHANGED <<last, expected>>

\* async_set_max_setpoint_temp up to its await
async_set_max_setpoint_temp(t, temp) ==
    /\ pc[t] = "idle"
    /\ started < MaxCalls
    /\ started' = started + 1
    /\ Frame
    /\ UNCHANGED remote_applied
    /\ LET inv == NewInv("async_set_max_setpoint_temp", max_setpoint_temp, temp) IN
       IF max_setpoint_temp \notin DOMAIN plant_settings
       THEN \* line 95: the subscript raises before anything is awaited
            Raise(t, inv, KeyError)
       ELSE LET call == Call(max_setpoint_temp, temp,
                             plant_settings[max_setpoint_temp], umsys)
            IN Suspend(t, [inv EXCEPT !.calls = <<call>>, !.out = Pending])

\* mutant: a failure of the remote call is swallowed
async_set_max_setpoint_temp_resume_swallow(t) ==
    /\ pc[t] = "awaiting"
    /\ cur[t].setter = "async_set_max_setpoint_temp"
    /\ cur[t].out # Pending
    /\ Frame
    /\ UNCHANGED <<remote_applied, started>>
    /\ IF cur[t].out = OK
       THEN Return(t, cur[t], DictSet(plant_settings, max_setpoint_temp, cur[t].arg))
       ELSE Return(t, cur[t], plant_settings)

\* the await of async_set_max_setpoint_temp returns or raises (lines 90, 98)
async_set_max_setpoint_temp_resume(t) ==
    /\ pc[t] = "awaiting"
    /\ cur[t].setter = "async_set_max_setpoint_temp"
    /\ cur[t].out # Pending
    /\ Frame
    /\ UNCHANGED <<remote_applied, started>>
    /\ IF cur[t].out = OK
       THEN Return(t, cur[t], DictSet(plant_settings, max_setpoint_temp, cur[t].arg))
       ELSE Raise(t, cur[t], cur[t].out)

\* ------------------------------------------------------------ environment
\* the remote answers the call in flight of task t: it applied it, or it failed
async_set_velis_plant_setting(t) ==
    /\ pc[t] = "awaiting"
    /\ cur[t].out = Pending
    /\ \E out \in RemoteOutcomes :
         /\ cur' = [cur EXCEPT ![t].out = out]
         /\ remote_applied' =
                set_velis_plant_setting(remote_applied, cur[t].calls[1], out)
    /\ UNCHANGED <<plant_settings, data, umsys, unit, language_tag, ctor, pc,
                   started, refreshed, expected, last, reads>>

\* the base class's refresh: the cache and the readings are replaced by what
\* the server reports
Refresh ==
    /\ refreshed < MaxRefresh
    /\ refreshed' = refreshed + 1
    /\ \E K \in (SUBSET SettingKeys) \ {{}}, b \in Bools, f \in Temps :
         LET ps == [k \in K |-> IF k = anti_legionella_on_off THEN b ELSE f] IN
         /\ plant_settings' = ps
         /\ expected' = ps
    /\ data' = [k \in {PROC_REQ_TEMP} |-> PyFloat(60)]
    /\ reads' = NoRead
    /\ UNCHANGED <<umsys, unit, language_tag, ctor, pc, cur, remote_applied,
                   started, last>>

\* ----------------------------------------------------------- specifications
\* the state after construction, for a constructor called with a tag of tags
InitWith(tags) ==
    \E is_metric \in BOOLEAN, tag \in tags :
      LET self == AristonVelisDevice_init(is_metric, tag) IN
      /\ plant_settings = self.plant_settings
      /\ umsys = self.umsys
      /\ unit = self.unit
      /\ language_tag = self.language_tag
      /\ ctor = [is_metric |-> is_metric, language_tag |-> tag]
      /\ data = EmptyDict
      /\ pc = [t \in Tasks |-> "idle"]
      /\ cur = [t \in Tasks |-> NoInv]
      /\ remote_applied = [k \in SettingKeys |-> None]
      /\ started = 0
      /\ refreshed = 0
      /\ expected = EmptyDict
      /\ last = NoInv
      /\ reads = NoRead

Init == InitWith(LanguageTags)

AllIdle == \A t \in Tasks : pc[t] = "idle"

\* an invocation runs in the first free task (the tasks are interchangeable)
Invoke(t) ==
  /\ \A u \in Tasks : u < t => pc[u] # "idle"
  /\
    \/ \E anti_leg \in Bools : set_antilegionella(t, anti_leg)
    \/ \E anti_leg \in Bools : async_set_antilegionella(t, anti_leg)
    \/ \E temp \in Temps : set_max_setpoint_temp(t, temp)
    \/ \E temp \in Temps : async_set_max_setpoint_temp(t, temp)

Resume(t) ==
    \/ async_set_antilegionella_resume(t)
    \/ async_set_max_setpoint_temp_resume(t)

\* a single caller: a setter starts only when no call is in progress; the
\* refresh runs between calls; the caller may read the accessors at any time
Next ==
    \/ AllIdle /\ \E t \in Tasks : Invoke(t)
    \/ \E t \in Tasks : Resume(t)
    \/ \E t \in Tasks : async_set_velis_plant_setting(t)
    \/ AllIdle /\ Refresh
    \/ ReadAccessors

Spec == Init /\ [][Next]_vars

\* several tasks on one device, constructed with the default language tag: a
\* setter may be invoked while another task is suspended at its await
InitConc == InitWith({"en-US"})

NextConc ==
    \/ \E t \in Tasks : Invoke(t)
    \/ \E t \in Tasks : Resume(t)
    \/ \E t \in Tasks : async_set_velis_plant_setting(t)
    \/ AllIdle /\ Refresh

SpecConc == InitConc /\ [][NextConc]_vars

\* ------------------------------------------------------------------ claims
\* a setter invocation finishes in this step; last' is its record
Finished == last'.id # last.id

\* the number the anti-legionella setters send for a flag
FlagAsNumber(x) == IF x = PyBool(TRUE) THEN PyFloat(1) ELSE PyFloat(0)

AntiLegSetters == {"set_antilegionella", "async_set_antilegionella"}
MaxSetpointSetters == {"set_max_setpoint_temp", "async_set_max_setpoint_temp"}
AsyncSetters == {"async_set_antilegionella", "async_set_max_setpoint_temp"}

\* the invocations on record: the one that finished last and those in flight
Invocations == {r \in {last} \cup {cur[t] : t \in Tasks} : r.id # 0}

\* C1: when a setter called with x while its key is cached returns normally,
\* the cached value of its key is x right after: water_anti_leg_value for the
\* anti-legionella setters, water_heater_maximum_setpoint_temperature and
\* water_heater_maximum_temperature for the max-setpoint setters.
C1_SuccessStoresArgument ==
    [][(Finished /\ last'.result = OK /\ last'.key \in DOMAIN last'.pre) =>
         /\ last'.setter \in AntiLegSetters => water_anti_leg_value' = last'.arg
         /\ last'.setter \in MaxSetpointSetters =>
              /\ water_heater_maximum_setpoint_temperature' = last'.arg
              /\ water_heater_maximum_temperature' = last'.arg]_vars

C1_Witness ==
    /\ last.setter = "async_set_antilegionella"
    /\ last.result = OK
    /\ last.arg = PyBool(TRUE)
    /\ last.pre[anti_legionella_on_off] = PyBool(FALSE)
    /\ water_anti_leg_value = PyBool(TRUE)

C3_MissingKeyFails ==
    [][(Finished /\ last'.key \notin DOMAIN last'.pre) =>
         /\ last'.result = KeyError
         /\ last'.pre = plant_settings
         /\ plant_settings' = plant_settings
         /\ last'.key \notin DOMAIN plant_settings']_vars

C3_Witness ==
    /\ last.setter = "set_antilegionella"
    /\ last.result = KeyError
    /\ anti_legionella_on_off \notin DOMAIN plant_settings
    /\ max_setpoint_temp \in DOMAIN plant_settings
    /\ plant_settings = last.pre

\* C4: the remote call of a setter carries the setter's key, the device's umsys,
\* and as new and old value the argument and the value cached at invocation:
\* as 1.0 / 0.0 for the anti-legionella setters, raw for the max-setpoint ones.
C4_CallArguments ==
    \A r \in Invocations :
      r.calls # <<>> =>
        LET call == r.calls[1] IN
        /\ r.key \in DOMAIN r.pre
        /\ call.setting = r.key
        /\ call.umsys = umsys
        /\ r.setter \in AntiLegSetters =>
             /\ call.setting = anti_legionella_on_off
             /\ call.new_value = FlagAsNumber(r.arg)
             /\ call.old_value = FlagAsNumber(r.pre[anti_legionella_on_off])
        /\ r.setter \in MaxSetpointSetters =>
             /\ call.setting = max_setpoint_temp
             /\ call.new_value = r.arg
             /\ call.old_value = r.pre[max_setpoint_temp]

C4_Witness ==
    /\ last.setter = "set_antilegionella"
    /\ last.arg = PyBool(TRUE)
    /\ last.pre = [k \in SettingKeys |->
                     IF k = anti_legionella_on_off THEN PyBool(FALSE)
                     ELSE PyFloat(60)]
    /\ ctor.is_metric
    /\ last.calls = <<Call("AntiLeg", PyFloat(1), PyFloat(0), "si")>>
    /\ water_anti_leg_value = PyBool(TRUE)

\* C5: an async setter reads the old value and issues its call before it
\* suspends, without writing the cache; the cache is written only by a refresh
\* or by a setter at the moment its own remote call has completed with success.
\* The witness is the race: two overlapping calls of one async setter sent the
\* same old value, the call issued first finished last, and the cache holds its
\* argument while the remote applied the other call's value last.
C5_CacheWrittenAtOwnCompletion ==
    [][/\ \A t \in Tasks :
            (pc[t] = "idle" /\ pc'[t] = "awaiting") =>
              /\ plant_settings' = plant_settings
              /\ cur'[t].pre = plant_settings
              /\ Len(cur'[t].calls) = 1
       /\ plant_settings' # plant_settings =>
            \/ refreshed' # refreshed
            \/ /\ Finished
               /\ last'.result = OK
               /\ plant_settings' = DictSet(plant_settings, last'.key, last'.arg)
               /\ last'.setter \in AsyncSetters =>
                    \E t \in Tasks : /\ pc[t] = "awaiting"
                                     /\ cur[t].id = last'.id
                                     /\ cur[t].out = OK]_vars

C5_Witness ==
    /\ AllIdle
    /\ last.setter = "async_set_max_setpoint_temp"
    /\ last.result = OK
    /\ last.overtaken_by.setter = last.setter
    /\ last.overtaken_by.id > last.id
    /\ last.overtaken_by.result = OK
    /\ last.overtaken_by.old_value = last.calls[1].old_value
    /\ last.overtaken_by.arg # last.arg
    /\ plant_settings[max_setpoint_temp] = last.arg
    /\ remote_applied[max_setpoint_temp] = last.overtaken_by.new_value
    /\ remote_applied[max_setpoint_temp] # plant_settings[max_setpoint_temp]

\* C6: for a single caller, an async setter ends as its synchronous variant
\* does from the same plant_settings, argument and remote outcome: the same
\* remote call, the same plant_settings afterwards, the same outcome.
C6_AsyncAsSync ==
    [][(Finished /\ last'.setter \in AsyncSetters) =>
         LET r == last'
             out == IF r.out = NoOutcome THEN OK ELSE r.out
             sync == IF r.setter = "async_set_antilegionella"
                     THEN set_antilegionella_run(r.pre, umsys, r.arg, out)
                     ELSE set_max_setpoint_temp_run(r.pre, umsys, r.arg, out)
         IN /\ r.calls = sync.calls
            /\ r.result = sync.result
            /\ plant_settings' = sync.post]_vars

C6_Witness ==
    /\ last.setter = "async_set_max_setpoint_temp"
    /\ last.out = "ConnectionError"
    /\ last.result =
         set_max_setpoint_temp_run(last.pre, umsys, last.arg, last.out).result
    /\ plant_settings =
         set_max_setpoint_temp_run(last.pre, umsys, last.arg, last.out).post
    /\ last.pre[max_setpoint_temp] # last.arg

\* C7: the unit system is what the constructor set: (umsys, unit) is
\* ("si", "°C") for is_metric = True and ("us", "°F") for False, language_tag
\* is the constructor's, and water_heater_temperature_unit returns that unit.
C7_UnitSystemFixed ==
    /\ umsys = IF ctor.is_metric THEN "si" ELSE "us"
    /\ unit = IF ctor.is_metric THEN "°C" ELSE "°F"
    /\ language_tag = ctor.language_tag
    /\ water_heater_temperature_unit = IF ctor.is_metric THEN "°C" ELSE "°F"

C7_Witness ==
    /\ ~ctor.is_metric
    /\ ctor.language_tag = "it-IT"
    /\ started >= 2
    /\ last.result \in RemoteErrors
    /\ plant_settings # EmptyDict
    /\ reads.read
    /\ water_heater_temperature_unit = "°F"

\* C8: reading the derived accessors never fails and changes nothing: each
\* returns the cached value when its key is present and None when it is
\* absent; water_heater_maximum_temperature equals
\* water_heater_maximum_setpoint_temperature; the minimum is 40.0.
C8_AccessorsTotal ==
    [][(reads'.read /\ reads' # reads) =>
         /\ plant_settings' = plant_settings
         /\ data' = data
         /\ reads'.water_anti_leg_value =
              IF anti_legionella_on_off \in DOMAIN plant_settings
              THEN plant_settings[anti_legionella_on_off] ELSE None
         /\ reads'.water_heater_maximum_setpoint_temperature =
              IF max_setpoint_temp \in DOMAIN plant_settings
              THEN plant_settings[max_setpoint_temp] ELSE None
         /\ reads'.proc_req_temp_value =
              IF PROC_REQ_TEMP \in DOMAIN data THEN data[PROC_REQ_TEMP] ELSE None
         /\ reads'.water_heater_maximum_temperature =
              reads'.water_heater_maximum_setpoint_temperature
         /\ reads'.water_heater_minimum_temperature = PyFloat(40)]_vars

C8_Witness ==
    /\ reads.read
    /\ anti_legionella_on_off \in DOMAIN plant_settings
    /\ max_setpoint_temp \notin DOMAIN plant_settings
    /\ reads.water_anti_leg_value = plant_settings[anti_legionella_on_off]
    /\ reads.water_heater_maximum_temperature = None
    /\ reads.proc_req_temp_value = PyFloat(60)

\* C9: a setter invocation issues no remote call when its key is absent at
\* invocation and exactly one otherwise, whether that call succeeds or raises.
C9_AtMostOneCall ==
    \A r \in Invocations :
      /\ Len(r.calls) <= 1
      /\ r.calls = <<>> <=> r.key \notin DOMAIN r.pre
      /\ r.calls = <<>> => r.result = KeyError

C9_Witness ==
    /\ last.setter = "set_max_setpoint_temp"
    /\ last.out \in RemoteErrors
    /\ last.result = last.out
    /\ Len(last.calls) = 1

\* the invocation that starts in this step
Started ==
    IF last'.id = started' THEN last'
    ELSE CHOOSE r \in {cur'[t] : t \in Tasks} : r.id = started'

\* C10: for a single caller, the old value a setter sends is (the 1.0 / 0.0
\* form of) the argument of the latest successful call on the same key, or the
\* populated value if there is none; a setter changes plant_settings only at
\* its own key and only on success.
C10_OldValueIsLastSuccess ==
    [][/\ (started' # started /\ Started.calls # <<>>) =>
            /\ Started.key \in DOMAIN expected
            /\ Started.calls[1].old_value =
                 IF Started.key = anti_legionella_on_off
                 THEN FlagAsNumber(expected[Started.key])
                 ELSE expected[Started.key]
       /\ Finished =>
            plant_settings' =
              IF last'.result = OK
              THEN [plant_settings EXCEPT ![last'.key] = last'.arg]
              ELSE plant_settings]_vars

C10_Witness ==
    /\ last.id >= 2
    /\ last.setter = "set_max_setpoint_temp"
    /\ last.result \in RemoteErrors
    /\ last.calls[1].old_value = PyFloat(65)
    /\ expected[max_setpoint_temp] = PyFloat(65)
    /\ last.arg = PyFloat(60)
    /\ remote_applied[max_setpoint_temp] = PyFloat(65)

====
